---- MODULE Spec2Model ----
(***************************************************************************)
(* Model of bot_assistant.py: the contact data model (Field, Name, Phone,  *)
(* Birthday, Record, AddressBook), the error-translating decorator, the    *)
(* pickle persistence and the command loop of main().                      *)
(*                                                                         *)
(* Representation.                                                         *)
(*  - A Python str is a sequence of one-character strings; program         *)
(*    literals that are only printed are kept as one chunk, so a printed   *)
(*    line is a sequence of chunks.                                        *)
(*  - None / a value is the option <<>> / <<v>>.                           *)
(*  - A dict is the sequence of its (key, value) entries in insertion      *)
(*    order, keys pairwise distinct.                                       *)
(*  - A call's outcome is a record with exc = <<>> (returned) or           *)
(*    exc = <<type, message>> (raised).                                    *)
(***************************************************************************)
EXTENDS Integers, Sequences, FiniteSets, TLC

VARIABLES
    pc,     \* main(): "start" (not running), "awaiting" (at input()), "done"
            \* (left the loop by break), "crashed" (left by an exception);
            \* "lib" when the classes are called directly
    book,   \* the AddressBook's data
    file,   \* addressbook.pkl: None when missing, else the pickled book
    today,  \* the date datetime.today() returns, <<year, month, day>>
    line,   \* the line the last iteration read
    out,    \* the lines the last iteration printed
    exc,    \* the exception that left main(), if any
    runs,   \* how many times main() has been started
    call,   \* the last direct call, <<method, arguments...>>
    ret     \* its outcome, [exc, value]

vars == <<pc, book, file, today, line, out, exc, runs, call, ret>>

-----------------------------------------------------------------------------
(* Options and outcomes *)

None == <<>>

Some(v) == <<v>>

NoExc == <<>>

Raise(type, msg) == <<type, msg>>

-----------------------------------------------------------------------------
(* str helpers *)

UpperChars == <<"A","B","C","D","E","F","G","H","I","J","K","L","M",
                "N","O","P","Q","R","S","T","U","V","W","X","Y","Z">>

LowerChars == <<"a","b","c","d","e","f","g","h","i","j","k","l","m",
                "n","o","p","q","r","s","t","u","v","w","x","y","z">>

DigitChars == <<"0","1","2","3","4","5","6","7","8","9">>

Whitespace == {" ", "\t"}

LowerChar(c) ==
    IF \E i \in DOMAIN UpperChars : UpperChars[i] = c
    THEN LowerChars[CHOOSE i \in DOMAIN UpperChars : UpperChars[i] = c]
    ELSE c

\* str.lower()
str_lower(s) == [i \in 1..Len(s) |-> LowerChar(s[i])]

IsDigitChar(c) == \E i \in DOMAIN DigitChars : DigitChars[i] = c

DigitVal(c) == (CHOOSE i \in DOMAIN DigitChars : DigitChars[i] = c) - 1

\* str.isdigit(): at least one character, all of them digits
str_isdigit(s) == Len(s) > 0 /\ \A i \in 1..Len(s) : IsDigitChar(s[i])

\* str.strip()
RECURSIVE str_lstrip(_)
str_lstrip(s) ==
    IF s # <<>> /\ Head(s) \in Whitespace THEN str_lstrip(Tail(s)) ELSE s

RECURSIVE str_rstrip(_)
str_rstrip(s) ==
    IF s # <<>> /\ s[Len(s)] \in Whitespace
    THEN str_rstrip(SubSeq(s, 1, Len(s) - 1)) ELSE s

str_strip(s) == str_rstrip(str_lstrip(s))

\* iterating a str yields its characters, each a str of length 1
str_iter(s) == [i \in 1..Len(s) |-> <<s[i]>>]

\* str.split(): split on runs of whitespace, no empty items
RECURSIVE SplitWs(_, _, _)
SplitWs(s, cur, acc) ==
    IF s = <<>> THEN (IF cur = <<>> THEN acc ELSE Append(acc, cur))
    ELSE IF Head(s) \in Whitespace
         THEN SplitWs(Tail(s), <<>>, IF cur = <<>> THEN acc ELSE Append(acc, cur))
         ELSE SplitWs(Tail(s), Append(cur, Head(s)), acc)

str_split(s) == SplitWs(s, <<>>, <<>>)

\* str.split(sep) for a one-character sep: empty items are kept
RECURSIVE SplitSep(_, _, _, _)
SplitSep(s, sep, cur, acc) ==
    IF s = <<>> THEN Append(acc, cur)
    ELSE IF Head(s) = sep
         THEN SplitSep(Tail(s), sep, <<>>, Append(acc, cur))
         ELSE SplitSep(Tail(s), sep, Append(cur, Head(s)), acc)

str_split_sep(s, sep) == SplitSep(s, sep, <<>>, <<>>)

\* sep.join(items)
RECURSIVE str_join(_, _)
str_join(sep, items) ==
    IF items = <<>> THEN <<>>
    ELSE IF Len(items) = 1 THEN items[1]
    ELSE items[1] \o sep \o str_join(sep, Tail(items))

RECURSIVE DigitsValue(_, _)
DigitsValue(s, acc) ==
    IF s = <<>> THEN acc ELSE DigitsValue(Tail(s), acc * 10 + DigitVal(Head(s)))

\* int(s) on the alphabet of the inputs (digits, letters, ".", "+", "-"):
\* an optional sign followed by one or more digits, else ValueError
int_ok(s) ==
    LET body == IF s # <<>> /\ Head(s) \in {"+", "-"} THEN Tail(s) ELSE s
    IN  str_isdigit(body)

int_val(s) ==
    IF Head(s) = "-" THEN 0 - DigitsValue(Tail(s), 0)
    ELSE IF Head(s) = "+" THEN DigitsValue(Tail(s), 0)
    ELSE DigitsValue(s, 0)

-----------------------------------------------------------------------------
(* datetime *)

IsLeap(y) == (y % 4 = 0) /\ ((y % 100 # 0) \/ (y % 400 = 0))

DaysInMonth(y, m) ==
    IF m = 2 THEN (IF IsLeap(y) THEN 29 ELSE 28)
    ELSE IF m \in {4, 6, 9, 11} THEN 30 ELSE 31

\* datetime(year, month, day) raises ValueError unless this holds
datetime_ok(y, m, d) ==
    /\ y >= 1 /\ y <= 9999
    /\ m >= 1 /\ m <= 12
    /\ d >= 1 /\ d <= DaysInMonth(y, m)

RECURSIVE DaysBeforeMonth(_, _)
DaysBeforeMonth(y, m) ==
    IF m = 1 THEN 0 ELSE DaysBeforeMonth(y, m - 1) + DaysInMonth(y, m - 1)

\* date.toordinal(): dates are compared and shifted by timedelta through it
toordinal(y, m, d) ==
    LET y1 == y - 1
    IN  y1 * 365 + (y1 \div 4) - (y1 \div 100) + (y1 \div 400)
        + DaysBeforeMonth(y, m) + d

\* datetime.strptime(s, "%d.%m.%Y"): day and month of one or two digits, a
\* year of exactly four digits, a real date; yields <<y, m, d>> or <<>>
strptime_dmY(s) ==
    LET parts == str_split_sep(s, ".")
    IN  IF /\ Len(parts) = 3
           /\ str_isdigit(parts[1]) /\ Len(parts[1]) <= 2
           /\ str_isdigit(parts[2]) /\ Len(parts[2]) <= 2
           /\ str_isdigit(parts[3]) /\ Len(parts[3]) = 4
           /\ datetime_ok(DigitsValue(parts[3], 0), DigitsValue(parts[2], 0),
                          DigitsValue(parts[1], 0))
        THEN <<DigitsValue(parts[3], 0), DigitsValue(parts[2], 0),
               DigitsValue(parts[1], 0)>>
        ELSE <<>>

-----------------------------------------------------------------------------
(* Field, Name, Phone, Birthday: each constructor yields [exc, value] *)

PhoneLen == 10

DaysAhead == 7

Name_init(value) ==
    IF value = <<>>
    THEN [exc |-> Raise("ValueError", "Name cannot be empty"), value |-> <<>>]
    ELSE [exc |-> NoExc, value |-> value]

\* the test of line 24 on one item of the iteration
PhoneItemRejected(val) == (~(Len(val) # PhoneLen)) \/ (~str_isdigit(val))

\* Phone.__init__ given the items that `for val in value` iterates over
Phone_init(value, items) ==
    IF \E i \in DOMAIN items : PhoneItemRejected(items[i])
    THEN [exc |-> Raise("ValueError", "Invalid phone number format"), value |-> <<>>]
    ELSE [exc |-> NoExc, value |-> value]

\* Phone(s) for a str s: the loop runs over the characters of s
Phone_of_str(s) == Phone_init(s, str_iter(s))

\* Phone([s]) for a list holding the str s: the loop runs over the list
Phone_of_list(l) == Phone_init(l, l)

Birthday_init(value) ==
    LET parts == str_split_sep(value, ".")
        bad   == [exc |-> Raise("ValueError", "Invalid date format. Use DD.MM.YYYY"),
                  value |-> <<>>]
    IN  IF Len(parts) # 3 THEN bad
        ELSE IF ~(int_ok(parts[1]) /\ int_ok(parts[2]) /\ int_ok(parts[3])) THEN bad
        ELSE IF ~datetime_ok(int_val(parts[3]), int_val(parts[2]), int_val(parts[1]))
             THEN bad
        ELSE [exc |-> NoExc, value |-> value]

-----------------------------------------------------------------------------
(* Record: [name, phones, birthday]; phones holds the value of each Phone *)

Record_init(name, phone) ==
    LET n == Name_init(name)
    IN  IF n.exc # NoExc THEN [exc |-> n.exc, rec |-> None]
        ELSE [exc |-> NoExc,
              rec |-> Some([name |-> n.value, phones |-> <<>>, birthday |-> None])]

Record_add_phone(rec, phone) ==
    LET p == Phone_of_str(phone)
    IN  IF p.exc # NoExc THEN [exc |-> p.exc, rec |-> rec]
        ELSE [exc |-> NoExc, rec |-> [rec EXCEPT !.phones = Append(@, p.value)]]

RECURSIVE SeqWithout(_, _)
SeqWithout(s, v) ==
    IF s = <<>> THEN <<>>
    ELSE IF Head(s) # v THEN <<Head(s)>> \o SeqWithout(Tail(s), v)
    ELSE SeqWithout(Tail(s), v)

Record_remove_phone(rec, phone) ==
    [exc |-> NoExc, rec |-> [rec EXCEPT !.phones = SeqWithout(@, phone)]]

FirstIndex(s, v) ==
    IF \E i \in DOMAIN s : s[i] = v
    THEN CHOOSE i \in DOMAIN s : s[i] = v /\ \A j \in 1..(i - 1) : s[j] # v
    ELSE 0

Record_edit_phone(rec, old_phone, new_phone) ==
    LET i == FirstIndex(rec.phones, old_phone)
    IN  IF i = 0 THEN [exc |-> NoExc, rec |-> rec]
        ELSE [exc |-> NoExc, rec |-> [rec EXCEPT !.phones[i] = new_phone]]

Record_find_phone(rec, phone) ==
    LET i == FirstIndex(rec.phones, phone)
    IN  IF i = 0 THEN None ELSE Some(rec.phones[i])

Record_str(rec) ==
    <<"Contact name: ">> \o rec.name \o <<", phones: ">>
        \o str_join(<<"; ">>, rec.phones)

\* add_birthday without the test of line 67
Record_add_birthday_overwrite(rec, birthday) ==
    LET b == Birthday_init(birthday)
    IN  IF b.exc # NoExc THEN [exc |-> b.exc, rec |-> rec]
        ELSE [exc |-> NoExc, rec |-> [rec EXCEPT !.birthday = Some(b.value)]]

Record_add_birthday(rec, birthday) ==
    IF rec.birthday = None
    THEN LET b == Birthday_init(birthday)
         IN  IF b.exc # NoExc THEN [exc |-> b.exc, rec |-> rec]
             ELSE [exc |-> NoExc, rec |-> [rec EXCEPT !.birthday = Some(b.value)]]
    ELSE [exc |-> Raise("ValueError", "Birthday already exists"), rec |-> rec]

-----------------------------------------------------------------------------
(* AddressBook(UserDict): data is the sequence of [key, rec] entries *)

KeyIndex(data, key) ==
    IF \E i \in DOMAIN data : data[i].key = key
    THEN CHOOSE i \in DOMAIN data : data[i].key = key
    ELSE 0

\* self.data[key] = rec
dict_set(data, key, rec) ==
    LET i == KeyIndex(data, key)
    IN  IF i = 0 THEN Append(data, [key |-> key, rec |-> rec])
        ELSE [data EXCEPT ![i] = [key |-> key, rec |-> rec]]

AddressBook_add_record(data, name, phone) ==
    LET r == Record_init(name, phone)
    IN  IF r.exc # NoExc THEN [exc |-> r.exc, data |-> data]
        ELSE [exc |-> NoExc, data |-> dict_set(data, name, r.rec[1])]

\* find(name) for a str name
AddressBook_find(data, name) ==
    LET i == KeyIndex(data, name)
    IN  [exc |-> NoExc, value |-> IF i = 0 THEN None ELSE Some(data[i].rec)]

\* find(key) for a list key: dict.get hashes the key first
AddressBook_find_list(data, key) ==
    [exc |-> Raise("TypeError", "unhashable type: 'list'"), value |-> None]

AddressBook_delete(data, name) ==
    LET i == KeyIndex(data, name)
    IN  IF i = 0 THEN data
        ELSE SubSeq(data, 1, i - 1) \o SubSeq(data, i + 1, Len(data))

AddressBook_str(data) ==
    str_join(<<"\n">>, [i \in 1..Len(data) |-> Record_str(data[i].rec)])

\* the test of lines 92-93 for a parsed birthday d = <<y, m, d>>
InWindow(d, now) ==
    /\ toordinal(d[1], d[2], d[3]) >= toordinal(now[1], now[2], now[3])
    /\ toordinal(d[1], d[2], d[3]) <= toordinal(now[1], now[2], now[3]) + DaysAhead

RECURSIVE UpcomingFrom(_, _, _)
UpcomingFrom(data, i, now) ==
    IF i > Len(data) THEN <<>>
    ELSE LET rec == data[i].rec
         IN  IF rec.birthday # None /\ InWindow(strptime_dmY(rec.birthday[1]), now)
             THEN <<[name |-> rec.name, birthday |-> rec.birthday[1]]>>
                      \o UpcomingFrom(data, i + 1, now)
             ELSE UpcomingFrom(data, i + 1, now)

\* strptime raises on the first stored birthday it cannot parse
AddressBook_get_upcoming_birthdays(data, now) ==
    IF \E i \in DOMAIN data :
           data[i].rec.birthday # None /\ strptime_dmY(data[i].rec.birthday[1]) = <<>>
    THEN [exc |-> Raise("ValueError", "time data does not match format"),
          value |-> <<>>]
    ELSE [exc |-> NoExc, value |-> UpcomingFrom(data, 1, now)]

-----------------------------------------------------------------------------
(* input_error and the decorated commands: each yields [data, value, printed] *)

\* the string the decorator returns for an exception
input_error(e) ==
    IF e[1] = "ValueError" THEN <<"ValueError: ", e[2]>>
    ELSE IF e[1] = "KeyError" THEN <<"KeyError: ", e[2]>>
    ELSE IF e[1] = "IndexError" THEN <<"IndexError: ", e[2]>>
    ELSE <<"An error occurred: ", e[2]>>

\* add_birthday(args, book), args a list of two str
add_birthday(args, data) ==
    LET name     == args[1]
        birthday == args[2]
        record   == AddressBook_find(data, name).value
    IN  IF record # None
        THEN LET r == Record_add_birthday(record[1], birthday)
             IN  IF r.exc # NoExc
                 THEN [data |-> data, value |-> input_error(r.exc)]
                 ELSE [data |-> dict_set(data, name, r.rec),
                       value |-> <<"Birthday added.">>]
        ELSE [data |-> data, value |-> <<"Contact not found.">>]

\* show_birthday(args, book): name is bound to the whole list args
show_birthday(args, data) ==
    LET name == args
        f    == AddressBook_find_list(data, name)
    IN  IF f.exc # NoExc THEN [data |-> data, value |-> input_error(f.exc)]
        ELSE IF f.value # None /\ f.value[1].birthday # None
             THEN [data |-> data, value |-> f.value[1].birthday[1]]
        ELSE [data |-> data, value |-> <<"Birthday not set.">>]

\* birthdays(args, book): the lines it prints; an exception ends it unprinted
birthdays(args, data, now) ==
    LET u == AddressBook_get_upcoming_birthdays(data, now)
    IN  IF u.exc # NoExc THEN <<>>
        ELSE IF u.value # <<>>
             THEN [i \in 1..Len(u.value) |->
                      <<"Name: ">> \o u.value[i].name \o <<", Birthday: ">>
                          \o u.value[i].birthday]
        ELSE << <<"No upcoming birthdays.">> >>

\* parse_input without the lower() of line 147
parse_input_nolower(user_input) ==
    LET parts == str_split(user_input)
    IN  IF parts = <<>>
        THEN [exc |-> Raise("ValueError",
                           "not enough values to unpack (expected at least 1, got 0)"),
              cmd |-> <<>>, args |-> <<>>]
        ELSE [exc |-> NoExc, cmd |-> str_strip(Head(parts)), args |-> Tail(parts)]

\* parse_input(user_input): [exc, cmd, args]
parse_input(user_input) ==
    LET parts == str_split(user_input)
    IN  IF parts = <<>>
        THEN [exc |-> Raise("ValueError",
                           "not enough values to unpack (expected at least 1, got 0)"),
              cmd |-> <<>>, args |-> <<>>]
        ELSE [exc |-> NoExc, cmd |-> str_lower(str_strip(Head(parts))),
              args |-> Tail(parts)]

\* pickle.dump(book, f): the entity graph written entry by entry
pickle_dump(data) ==
    [i \in 1..Len(data) |->
        <<data[i].key, data[i].rec.name, data[i].rec.phones, data[i].rec.birthday>>]

\* pickle.load(f)
pickle_load(blob) ==
    [i \in 1..Len(blob) |->
        [key |-> blob[i][1],
         rec |-> [name |-> blob[i][2], phones |-> blob[i][3], birthday |-> blob[i][4]]]]

save_data(data) == Some(pickle_dump(data))

\* load_data(): a missing file yields a new AddressBook
load_data(f) == IF f = None THEN <<>> ELSE pickle_load(f[1])

-----------------------------------------------------------------------------
(* Inputs *)

MaxRuns == 2

MaxPhones == 2

Ann == <<"A","n","n">>

Bob == <<"B","o","b">>

P1 == <<"1","2","3","4","5","6","7","8","9","0">>

P2 == <<"0","9","8","7","6","5","4","3","2","1">>

ShortDigits == <<"1","2","3","4","5">>

TenWithLetter == <<"1","2","3","4","5","6","7","8","9","x">>

\* the clock reads 02.11.2026
Todays == {<<2026, 11, 2>>}

\* 05.11.2026: today + 3 days
BdSoon == <<"0","5",".","1","1",".","2","0","2","6">>

\* 05.11.1990: the same month and day, born in 1990
BdSoonBorn1990 == <<"0","5",".","1","1",".","1","9","9","0">>

\* 12.11.2026: today + 10 days
BdLate == <<"1","2",".","1","1",".","2","0","2","6">>

\* 5.11.26: accepted by Birthday (the year 26), not by strptime's %Y
BdShortYear == <<"5",".","1","1",".","2","6">>

\* 31.02.2024: no such day
BdNoSuchDay == <<"3","1",".","0","2",".","2","0","2","4">>

\* not a date at all
BdWord == <<"s","o","o","n">>

Names == {Ann, Bob}

Birthdays == {BdSoon, BdSoonBorn1990, BdLate, BdShortYear, BdNoSuchDay, BdWord}

kw_close == <<"c","l","o","s","e">>

kw_exit == <<"e","x","i","t">>

kw_hello == <<"h","e","l","l","o">>

kw_add == <<"a","d","d">>

kw_change == <<"c","h","a","n","g","e">>

kw_phone == <<"p","h","o","n","e">>

kw_all == <<"a","l","l">>

kw_add_birthday == <<"a","d","d","-","b","i","r","t","h","d","a","y">>

kw_show_birthday == <<"s","h","o","w","-","b","i","r","t","h","d","a","y">>

kw_birthdays == <<"b","i","r","t","h","d","a","y","s">>

Commands == {kw_close, kw_exit, kw_hello, kw_add, kw_change, kw_phone, kw_all,
             kw_add_birthday, kw_show_birthday, kw_birthdays}

\* a typed line: the words separated by single spaces
Typed(words) == str_join(<<" ">>, words)

Lines ==
    {<<>>, <<" ", " ">>, <<"f","o","o">>, <<"C","L","O","S","E">>,
     <<"E","x","i","t">>, <<" ">> \o kw_add \o <<" ", " ">> \o Ann \o <<" ">> \o P1 \o <<" ">>}
    \cup {Typed(<<c>>) : c \in Commands}
    \cup {Typed(<<c, Ann>>) : c \in Commands \ {kw_hello, kw_all, kw_birthdays}}
    \cup {Typed(<<kw_add, Ann, P1>>), Typed(<<kw_add, Bob, ShortDigits>>)}
    \cup {Typed(<<c, Ann, P1, P2>>) : c \in {kw_add, kw_change, kw_phone, kw_add_birthday}}
    \cup {Typed(<<kw_change, Ann, P1>>), Typed(<<kw_change, Ann, P1, P2, P1>>),
          Typed(<<kw_show_birthday, Ann, Bob>>)}
    \cup {Typed(<<kw_add_birthday, Ann, b>>) : b \in Birthdays}
    \cup {Typed(<<kw_add_birthday, Bob, BdLate>>)}

-----------------------------------------------------------------------------
(* main(): the command loop *)

Init ==
    /\ pc = "start"
    /\ book = <<>>
    /\ file = None
    /\ today \in Todays
    /\ line = <<>>
    /\ out = <<>>
    /\ exc = NoExc
    /\ runs = 0
    /\ call = <<>>
    /\ ret = <<>>

\* lines 164-166; a run begins when none is in progress
Start ==
    /\ pc \in {"start", "done", "crashed"}
    /\ runs < MaxRuns
    /\ runs' = runs + 1
    /\ book' = load_data(file)
    /\ out' = << <<"Welcome to the assistant bot!">> >>
    /\ pc' = "awaiting"
    /\ line' = <<>>
    /\ exc' = NoExc
    /\ UNCHANGED <<file, today, call, ret>>

\* the iteration's outcome: the loop goes on with data, having printed lines
Continue(l, data, lines) ==
    /\ pc' = "awaiting"
    /\ line' = l
    /\ book' = data
    /\ out' = lines
    /\ exc' = NoExc
    /\ UNCHANGED <<file, today, runs, call, ret>>

\* the iteration's outcome: an exception leaves main()
Crash(l, e) ==
    /\ pc' = "crashed"
    /\ line' = l
    /\ out' = <<>>
    /\ exc' = e
    /\ UNCHANGED <<book, file, today, runs, call, ret>>

\* line 169 on each line that can be typed
Parsed == [l \in Lines |-> parse_input(l)]

\* the lines that lines 169-226 dispatch to the branch of cmds
Dispatched(cmds) == {l \in Lines : Parsed[l].exc = NoExc /\ Parsed[l].cmd \in cmds}

CloseLines == Dispatched({kw_close, kw_exit})

HelloLines == Dispatched({kw_hello})

AddLines == Dispatched({kw_add})

ChangeLines == Dispatched({kw_change})

PhoneLines == Dispatched({kw_phone})

AllLines == Dispatched({kw_all})

AddBirthdayLines == Dispatched({kw_add_birthday})

ShowBirthdayLines == Dispatched({kw_show_birthday})

BirthdaysLines == Dispatched({kw_birthdays})

InvalidLines == {l \in Lines : Parsed[l].exc = NoExc /\ Parsed[l].cmd \notin Commands}

UnparsedLines == {l \in Lines : Parsed[l].exc # NoExc}

\* line 169 raises
CmdUnparsed ==
    \E l \in UnparsedLines :
        /\ pc = "awaiting"
        /\ Crash(l, Parsed[l].exc)

CmdClose ==
    \E l \in CloseLines :
        /\ pc = "awaiting"
        /\ file' = save_data(book)
        /\ out' = << <<"Good bye!">> >>
        /\ pc' = "done"
        /\ line' = l
        /\ exc' = NoExc
        /\ UNCHANGED <<book, today, runs, call, ret>>

CmdHello ==
    \E l \in HelloLines :
        /\ pc = "awaiting"
        /\ Continue(l, book, << <<"How can I help you?">> >>)

\* the argument-count test written as "too few" only
WrongCount_too_few(args, n) == Len(args) < n

\* the argument-count test of a branch: TRUE when the usage message is printed
WrongCount(args, n) == Len(args) # n

CmdAdd ==
    \E l \in AddLines :
        /\ pc = "awaiting"
        /\ LET args == Parsed[l].args
           IN  IF WrongCount(args, 2)
               THEN Continue(l, book, << <<"Invalid input format. Use 'add name phone'.">> >>)
               ELSE LET r == AddressBook_add_record(book, args[1], args[2])
                    IN  IF r.exc # NoExc THEN Crash(l, r.exc)
                        ELSE Continue(l, r.data, << <<"Contact added.">> >>)

\* book.find(args) is given the list args
CmdChange ==
    \E l \in ChangeLines :
        /\ pc = "awaiting"
        /\ LET args == Parsed[l].args
           IN  IF WrongCount(args, 3)
               THEN Continue(l, book,
                      << <<"Invalid input format. Use 'change name old_phone new_phone'.">> >>)
               ELSE LET f == AddressBook_find_list(book, args)
                    IN  IF f.exc # NoExc THEN Crash(l, f.exc)
                        ELSE IF f.value # None
                             THEN Continue(l,
                                    dict_set(book, f.value[1].name,
                                             Record_edit_phone(f.value[1], args, args).rec),
                                    << <<"Phone changed.">> >>)
                        ELSE Continue(l, book, << <<"Contact not found.">> >>)

CmdPhone ==
    \E l \in PhoneLines :
        /\ pc = "awaiting"
        /\ LET args == Parsed[l].args
           IN  IF WrongCount(args, 1)
               THEN Continue(l, book, << <<"Invalid input format. Use 'phone name'.">> >>)
               ELSE LET f == AddressBook_find_list(book, args)
                    IN  IF f.exc # NoExc THEN Crash(l, f.exc)
                        ELSE IF f.value # None
                             THEN Continue(l, book, <<Record_str(f.value[1])>>)
                        ELSE Continue(l, book, << <<"Contact not found.">> >>)

CmdAll ==
    \E l \in AllLines :
        /\ pc = "awaiting"
        /\ Continue(l, book, <<AddressBook_str(book)>>)

CmdAddBirthday ==
    \E l \in AddBirthdayLines :
        /\ pc = "awaiting"
        /\ LET args == Parsed[l].args
           IN  IF WrongCount(args, 2)
               THEN Continue(l, book,
                      << <<"Invalid input format. Use 'add-birthday name birthday'.">> >>)
               ELSE LET r == add_birthday(args, book)
                    IN  Continue(l, r.data, <<r.value>>)

CmdShowBirthday ==
    \E l \in ShowBirthdayLines :
        /\ pc = "awaiting"
        /\ LET args == Parsed[l].args
           IN  IF WrongCount(args, 1)
               THEN Continue(l, book,
                      << <<"Invalid input format. Use 'show-birthday name'.">> >>)
               ELSE LET r == show_birthday(args, book)
                    IN  Continue(l, r.data, <<r.value>>)

CmdBirthdays ==
    \E l \in BirthdaysLines :
        /\ pc = "awaiting"
        /\ Continue(l, book, birthdays(Parsed[l].args, book, today))

CmdInvalid ==
    \E l \in InvalidLines :
        /\ pc = "awaiting"
        /\ Continue(l, book, << <<"Invalid command.">> >>)

Next ==
    \/ Start
    \/ CmdUnparsed
    \/ CmdClose
    \/ CmdHello
    \/ CmdAdd
    \/ CmdChange
    \/ CmdPhone
    \/ CmdAll
    \/ CmdAddBirthday
    \/ CmdShowBirthday
    \/ CmdBirthdays
    \/ CmdInvalid

Spec == Init /\ [][Next]_vars

-----------------------------------------------------------------------------
(* The classes called directly: call is <<method, arguments...>>, ret its outcome *)

PhoneInputs == {P1, ShortDigits, TenWithLetter}

NameInputs == {Ann, Bob, <<>>}

BirthdayInputs == {BdSoon, BdSoonBorn1990, BdNoSuchDay}

InitApi ==
    /\ pc = "lib"
    /\ book = <<>>
    /\ file = None
    /\ today \in Todays
    /\ line = <<>>
    /\ out = <<>>
    /\ exc = NoExc
    /\ runs = 0
    /\ call = <<>>
    /\ ret = [exc |-> NoExc, value |-> None]

\* a call that leaves data as the book and yields r
Called(c, data, r) ==
    /\ call' = c
    /\ book' = data
    /\ ret' = r
    /\ UNCHANGED <<pc, file, today, line, out, exc, runs>>

\* the Record stored under name n
RecordOf(n) == AddressBook_find(book, n).value[1]

Has(n) == AddressBook_find(book, n).value # None

\* a method of the Record under n yielding [exc, rec]
OnRecord(c, n, r) ==
    Called(c, dict_set(book, n, r.rec), [exc |-> r.exc, value |-> None])

ApiPhone ==
    \E p \in PhoneInputs \cup {P2} :
        Called(<<"Phone", <<p>>>>, book, Phone_of_list(<<p>>))

ApiAddRecord ==
    \E n \in NameInputs, p \in PhoneInputs :
        LET r == AddressBook_add_record(book, n, p)
        IN  Called(<<"add_record", n, p>>, r.data, [exc |-> r.exc, value |-> None])

ApiFind ==
    \E n \in NameInputs :
        Called(<<"find", n>>, book, AddressBook_find(book, n))

ApiDelete ==
    \E n \in NameInputs :
        Called(<<"delete", n>>, AddressBook_delete(book, n),
               [exc |-> NoExc, value |-> None])

ApiAddPhone ==
    \E p \in PhoneInputs :
        /\ Has(Ann)
        /\ Len(RecordOf(Ann).phones) < MaxPhones
        /\ OnRecord(<<"add_phone", Ann, p>>, Ann, Record_add_phone(RecordOf(Ann), p))

ApiRemovePhone ==
    \E p \in PhoneInputs :
        /\ Has(Ann)
        /\ OnRecord(<<"remove_phone", Ann, p>>, Ann, Record_remove_phone(RecordOf(Ann), p))

ApiEditPhone ==
    \E p \in PhoneInputs, q \in PhoneInputs :
        /\ Has(Ann)
        /\ OnRecord(<<"edit_phone", Ann, p, q>>, Ann, Record_edit_phone(RecordOf(Ann), p, q))

ApiFindPhone ==
    \E p \in PhoneInputs :
        /\ Has(Ann)
        /\ Called(<<"find_phone", Ann, p>>, book,
                  [exc |-> NoExc, value |-> Record_find_phone(RecordOf(Ann), p)])

ApiAddBirthday ==
    \E n \in Names, b \in BirthdayInputs :
        /\ Has(n)
        /\ n = Bob => b = BdSoonBorn1990
        /\ OnRecord(<<"add_birthday", n, b>>, n, Record_add_birthday(RecordOf(n), b))

ApiUpcoming ==
    Called(<<"get_upcoming_birthdays">>, book,
           AddressBook_get_upcoming_birthdays(book, today))

NextApi ==
    \/ ApiPhone
    \/ ApiAddRecord
    \/ ApiFind
    \/ ApiDelete
    \/ ApiAddPhone
    \/ ApiRemovePhone
    \/ ApiEditPhone
    \/ ApiFindPhone
    \/ ApiAddBirthday
    \/ ApiUpcoming

SpecApi == InitApi /\ [][NextApi]_vars

-----------------------------------------------------------------------------
(* Properties *)

IsTenDigits(p) == Len(p) = 10 /\ \A i \in 1..Len(p) : IsDigitChar(p[i])

IsCall(m) == call # <<>> /\ call[1] = m

\* C1: after add_record(n, p) with a valid name n and a valid phone p, the
\* Record that find(n) returns holds exactly the phone p and renders as
\* "Contact name: <n>, phones: <p>".
C1_AddRecordKeepsPhone ==
    (IsCall("add_record") /\ call[2] # <<>> /\ IsTenDigits(call[3]))
        => /\ ret.exc = NoExc
           /\ AddressBook_find(book, call[2]).value # None
           /\ AddressBook_find(book, call[2]).value[1].phones = <<call[3]>>
           /\ Record_str(AddressBook_find(book, call[2]).value[1])
                  = <<"Contact name: ">> \o call[2] \o <<", phones: ">> \o call[3]

\* C2: Phone([p]) succeeds exactly when p is a string of exactly 10 digits,
\* and add_phone never stores anything else.
C2_PhoneAcceptsExactlyTenDigits ==
    /\ IsCall("Phone") => (ret.exc = NoExc <=> IsTenDigits(call[2][1]))
    /\ (IsCall("add_phone") /\ ret.exc = NoExc) => IsTenDigits(call[3])

C3_MonthDay(b) ==
    LET parts == str_split_sep(b, ".")
    IN  <<int_val(parts[2]), int_val(parts[1])>>

C3_Due(e) ==
    /\ e.rec.birthday # None
    /\ LET md == C3_MonthDay(e.rec.birthday[1])
           t  == toordinal(today[1], today[2], today[3])
       IN  /\ datetime_ok(today[1], md[1], md[2])
           /\ toordinal(today[1], md[1], md[2]) >= t
           /\ toordinal(today[1], md[1], md[2]) <= t + 7

C3_Expected ==
    LET due == SelectSeq(book, C3_Due)
    IN  [i \in 1..Len(due) |->
            [name |-> due[i].rec.name, birthday |-> due[i].rec.birthday[1]]]

\* C3: get_upcoming_birthdays() returns, in book order, exactly the records
\* whose birthday month/day, placed in the current year, lies in
\* [today, today + 7 days], whatever the stored birth year.
C3_UpcomingIgnoresBirthYear ==
    IsCall("get_upcoming_birthdays")
        => (ret.exc = NoExc /\ ret.value = C3_Expected)

\* C4: no input line is fatal to the loop: it leaves the state "awaiting
\* command" only on close or exit.
C4_LoopEndsOnlyOnClose ==
    \/ pc \in {"start", "awaiting"}
    \/ pc = "done" /\ line \in {Typed(<<c>>) : c \in {kw_close, kw_exit}}
                              \cup {Typed(<<c, Ann>>) : c \in {kw_close, kw_exit}}
                              \cup {<<"C","L","O","S","E">>, <<"E","x","i","t">>}

C5_AlreadyExists == Raise("ValueError", "Birthday already exists")

\* add_birthday called on any Record of the book that has a birthday
C5_Direct ==
    \A i \in DOMAIN book : \A b \in Birthdays :
        book[i].rec.birthday # None
            => Record_add_birthday(book[i].rec, b)
                   = [exc |-> C5_AlreadyExists, rec |-> book[i].rec]

\* the add-birthday command given a contact that has a birthday
C5_Command ==
    \A n \in Names : \A b \in Birthdays :
        (/\ pc = "awaiting"
         /\ line' = Typed(<<kw_add_birthday, n, b>>)
         /\ AddressBook_find(book, n).value # None
         /\ AddressBook_find(book, n).value[1].birthday # None)
            => /\ out' = << <<"ValueError: ", "Birthday already exists">> >>
               /\ book' = book
               /\ pc' = "awaiting"
               /\ exc' = NoExc

\* C5: once a Record has a birthday, every later add_birthday on it fails with
\* "Birthday already exists" and leaves the birthday as it was; the
\* add-birthday command returns the failure as a string and the loop goes on.
C5_BirthdaySetOnce == []C5_Direct /\ [][C5_Command]_vars

C5_Witness ==
    /\ pc = "awaiting"
    /\ line = Typed(<<kw_add_birthday, Ann, BdLate>>)
    /\ out = << <<"ValueError: ", "Birthday already exists">> >>
    /\ AddressBook_find(book, Ann).value # None
    /\ AddressBook_find(book, Ann).value[1].birthday = Some(BdSoon)

C6_ReplaceFirst(phones, old, new) ==
    IF \E i \in DOMAIN phones : phones[i] = old
    THEN LET k == CHOOSE i \in DOMAIN phones :
                      phones[i] = old /\ \A j \in 1..(i - 1) : phones[j] # old
         IN  [phones EXCEPT ![k] = new]
    ELSE phones

C6_Step(n, old, new) ==
    (pc = "awaiting" /\ line' = Typed(<<kw_change, n, old, new>>))
        => IF \E i \in DOMAIN book : book[i].key = n
           THEN /\ Len(book') = Len(book)
                /\ \A i \in DOMAIN book :
                       book'[i] = IF book[i].key = n
                                  THEN [book[i] EXCEPT !.rec.phones =
                                            C6_ReplaceFirst(@, old, new)]
                                  ELSE book[i]
           ELSE /\ book' = book
                /\ out' = << <<"Contact not found.">> >>

\* C6: change name old new replaces the first phone equal to old in the Record
\* of name and nothing else; when name is not in the book it prints
\* "Contact not found." and leaves the book unchanged.
C6_ChangeEditsPhone == [][C6_Step(Ann, P1, P2)]_vars

\* C7: show-birthday name prints the stored birthday of name when it has one
\* and "Birthday not set." otherwise.
C7_ShowBirthdayPrintsBirthday ==
    \A n \in Names :
        (pc = "awaiting" /\ line = Typed(<<kw_show_birthday, n>>))
            => out = << IF /\ AddressBook_find(book, n).value # None
                           /\ AddressBook_find(book, n).value[1].birthday # None
                        THEN AddressBook_find(book, n).value[1].birthday[1]
                        ELSE <<"Birthday not set.">> >>

\* the lines with a wrong number of arguments and the usage message of each
C8_Cases ==
    {<<Typed(w), <<"Invalid input format. Use 'add name phone'.">> >> :
        w \in {<<kw_add>>, <<kw_add, Ann>>, <<kw_add, Ann, P1, P2>>}}
    \cup {<<Typed(w), <<"Invalid input format. Use 'change name old_phone new_phone'.">> >> :
        w \in {<<kw_change>>, <<kw_change, Ann>>, <<kw_change, Ann, P1>>,
               <<kw_change, Ann, P1, P2, P1>>}}
    \cup {<<Typed(w), <<"Invalid input format. Use 'phone name'.">> >> :
        w \in {<<kw_phone>>, <<kw_phone, Ann, P1, P2>>}}
    \cup {<<Typed(w), <<"Invalid input format. Use 'add-birthday name birthday'.">> >> :
        w \in {<<kw_add_birthday>>, <<kw_add_birthday, Ann>>,
               <<kw_add_birthday, Ann, P1, P2>>}}
    \cup {<<Typed(w), <<"Invalid input format. Use 'show-birthday name'.">> >> :
        w \in {<<kw_show_birthday>>, <<kw_show_birthday, Ann, Bob>>}}

C8_Step ==
    \A c \in C8_Cases :
        (pc = "awaiting" /\ line' = c[1])
            => /\ out' = <<c[2]>>
               /\ book' = book
               /\ file' = file
               /\ pc' = "awaiting"
               /\ exc' = NoExc

\* C8: add, change, phone, add-birthday and show-birthday given a wrong number
\* of arguments print their usage message and nothing else, leave the book
\* unchanged and prompt again.
C8_WrongCountOnlyPrintsUsage == [][C8_Step]_vars

C8_Witness ==
    /\ pc = "awaiting"
    /\ line = Typed(<<kw_add, Ann, P1, P2>>)
    /\ out = << <<"Invalid input format. Use 'add name phone'.">> >>
    /\ book # <<>>

C9_CloseLines ==
    {Typed(<<kw_close>>), Typed(<<kw_exit>>), <<"C","L","O","S","E">>,
     <<"E","x","i","t">>, Typed(<<kw_close, Ann>>), Typed(<<kw_exit, Ann>>)}

\* close or exit ends the loop with the farewell, the book as it stood
C9_Close ==
    \A l \in C9_CloseLines :
        (pc = "awaiting" /\ line' = l)
            => /\ pc' = "done"
               /\ out' = << <<"Good bye!">> >>
               /\ book' = book
               /\ exc' = NoExc

\* after the loop has ended nothing happens but a new run, which loads the
\* book as it stood at close
C9_AfterClose ==
    pc = "done"
        => /\ pc' = "awaiting"
           /\ line' = <<>>
           /\ runs' = runs + 1
           /\ book' = book

\* C9: close or exit, in any letter case and in any state, saves the book as
\* it stands, prints the farewell and ends the loop without "Invalid
\* command."; no command is processed after it, and a later load returns a
\* book with the same names, phones and birthdays.
C9_CloseSavesAndEnds == [][C9_Close /\ C9_AfterClose]_vars

C9_Witness ==
    /\ runs = 2
    /\ pc = "awaiting"
    /\ line = <<>>
    /\ Len(book) = 2
    /\ \E i \in DOMAIN book : book[i].rec.birthday # None

C10_Step ==
    \A p \in PhoneInputs : \A q \in PhoneInputs :
        (Has(Ann) /\ call' = <<"edit_phone", Ann, p, q>>)
            => IF \A j \in DOMAIN RecordOf(Ann).phones : RecordOf(Ann).phones[j] # p
               THEN book' = book /\ ret'.exc = NoExc
               ELSE IsTenDigits(q) \/ (book' = book /\ ret'.exc # NoExc)

\* C10: edit_phone(old, new) validates new before writing it: when new is not
\* a string of exactly 10 digits the call fails and the phone list is
\* unchanged (so no edit can store such a value); when old is not in the list
\* the call is a silent no-op.
C10_EditPhoneValidates == [][C10_Step]_vars

====
